---- MODULE Spec2Model ----
(***************************************************************************)
(* Certificate sender: a model of src/main.py and                          *)
(* src/add_text_using_x_y.py.                                              *)
(*                                                                         *)
(* Python strings are sequences of one-character strings.  Python None,    *)
(* str and int cell values are tagged records.                             *)
(***************************************************************************)
EXTENDS Integers, Sequences, FiniteSets, TLC

\* ------------------------------------------------------------------ bounds
\* longest column label typed at the prompt
MaxLabelLen == 2
\* most data rows (rows 2..) of a sheet
MaxRows == 2
\* most pages of a template
MaxPages == 2

\* ----------------------------------------------------------- python strings
Lower == <<"a","b","c","d","e","f","g","h","i","j","k","l","m",
           "n","o","p","q","r","s","t","u","v","w","x","y","z">>
Upper == <<"A","B","C","D","E","F","G","H","I","J","K","L","M",
           "N","O","P","Q","R","S","T","U","V","W","X","Y","Z">>
Digits == <<"0","1","2","3","4","5","6","7","8","9">>

Range(f) == {f[i] : i \in DOMAIN f}

\* str.isspace() of one character (the ASCII whitespace the model uses)
IsSpace(c) == c \in {" ", "\t", "\n"}
IsLower(c) == c \in Range(Lower)
IsUpper(c) == c \in Range(Upper)
\* str.isalpha() of one character
IsLetter(c) == IsLower(c) \/ IsUpper(c)
IsDigit(c) == c \in Range(Digits)

IndexIn(c, seq) == CHOOSE i \in DOMAIN seq : seq[i] = c

ToUpperChar(c) == IF IsLower(c) THEN Upper[IndexIn(c, Lower)] ELSE c
ToLowerChar(c) == IF IsUpper(c) THEN Lower[IndexIn(c, Upper)] ELSE c

\* ord(c) of an ASCII letter
Ord(c) == IF IsUpper(c) THEN 64 + IndexIn(c, Upper) ELSE 96 + IndexIn(c, Lower)

\* str.upper(), str.lower()
StrUpper(s) == [i \in 1..Len(s) |-> ToUpperChar(s[i])]
StrLower(s) == [i \in 1..Len(s) |-> ToLowerChar(s[i])]

\* str.isalpha(): non-empty and every character a letter
IsAlpha(s) == Len(s) > 0 /\ \A i \in 1..Len(s) : IsLetter(s[i])

RECURSIVE LStrip(_)
LStrip(s) == IF s # <<>> /\ IsSpace(Head(s)) THEN LStrip(Tail(s)) ELSE s

RECURSIVE RStrip(_)
RStrip(s) ==
  IF s # <<>> /\ IsSpace(s[Len(s)]) THEN RStrip(SubSeq(s, 1, Len(s) - 1)) ELSE s

\* str.strip(): leading and trailing whitespace removed
Strip(s) == RStrip(LStrip(s))

\* str.replace(c, ""), c one character
Remove(s, c) == LET Keep(x) == x # c IN SelectSeq(s, Keep)

\* str.endswith(suffix)
EndsWith(s, suffix) ==
  /\ Len(s) >= Len(suffix)
  /\ SubSeq(s, Len(s) - Len(suffix) + 1, Len(s)) = suffix

\* the leading run of non-whitespace characters of s
RECURSIVE FirstWord(_)
FirstWord(s) ==
  IF s = <<>> \/ IsSpace(Head(s)) THEN <<>> ELSE <<Head(s)>> \o FirstWord(Tail(s))

\* str.split() with no separator: the runs of non-whitespace characters
RECURSIVE Split(_)
Split(s) ==
  LET t == LStrip(s)
      w == FirstWord(t)
  IN IF t = <<>> THEN <<>>
     ELSE <<w>> \o Split(SubSeq(t, Len(w) + 1, Len(t)))

\* " ".join(parts)
RECURSIVE JoinSpace(_)
JoinSpace(parts) ==
  IF parts = <<>> THEN <<>>
  ELSE IF Len(parts) = 1 THEN parts[1]
  ELSE parts[1] \o <<" ">> \o JoinSpace(Tail(parts))

\* parts[:n]
Take(parts, n) == SubSeq(parts, 1, IF Len(parts) < n THEN Len(parts) ELSE n)

\* str.title(): a letter that follows a letter is lower-cased, any other
\* letter is upper-cased, every other character is kept
Title(s) ==
  [i \in 1..Len(s) |->
     IF IsLetter(s[i])
     THEN IF i > 1 /\ IsLetter(s[i - 1]) THEN ToLowerChar(s[i]) ELSE ToUpperChar(s[i])
     ELSE s[i]]

\* str(n) of a natural number
RECURSIVE IntToStr(_)
IntToStr(n) ==
  IF n < 10 THEN <<Digits[n + 1]>> ELSE IntToStr(n \div 10) \o <<Digits[(n % 10) + 1]>>

\* ------------------------------------------------------------ python values
PyNone == [kind |-> "none", s |-> <<>>, n |-> 0]
PyStr(s) == [kind |-> "str", s |-> s, n |-> 0]
PyInt(n) == [kind |-> "int", s |-> <<>>, n |-> n]

\* str(v) of a cell value
Str(v) ==
  IF v.kind = "str" THEN v.s
  ELSE IF v.kind = "int" THEN IntToStr(v.n)
  ELSE <<"N","o","n","e">>

\* `not v` of None or an int
Falsy(v) == v.kind = "none" \/ (v.kind = "int" /\ v.n = 0)

\* ------------------------------------------------------- col_letter_to_index
\* the loop `for char in letter: index = index * 26 + (ord(char) - ord('A') + 1)`
RECURSIVE ColLoop(_, _)
ColLoop(index, letter) ==
  IF letter = <<>> THEN index
  ELSE ColLoop(index * 26 + (Ord(Head(letter)) - Ord("A") + 1), Tail(letter))

\* a faulty variant: the digit is zero-based, ord(char) - ord('A')
ColLetterZeroBased(letter) ==
  LET l == StrUpper(Strip(letter))
      RECURSIVE Loop0(_, _)
      Loop0(index, rest) ==
        IF rest = <<>> THEN index
        ELSE Loop0(index * 26 + (Ord(Head(rest)) - Ord("A")), Tail(rest))
  IN IF ~IsAlpha(l) THEN PyNone ELSE PyInt(Loop0(0, l))

\* a faulty variant: the label is not stripped before str.isalpha()
ColLetterNoStrip(letter) ==
  LET l == StrUpper(letter)
  IN IF ~IsAlpha(l) THEN PyNone ELSE PyInt(ColLoop(0, l))

col_letter_to_index(letter) ==
  LET l == StrUpper(Strip(letter))
  IN IF ~IsAlpha(l) THEN PyNone ELSE PyInt(ColLoop(0, l))

\* --------------------------------------------------------------- the state
VARIABLES
  \* SpecCol: one call of col_letter_to_index
  letter,            \* the argument
  index,             \* the value returned, or "pending"
  \* process_pdfs
  script,            \* "main" or "add_text_using_x_y": whose process_pdfs runs
  excel_file,        \* argument: the spreadsheet path
  name_col,          \* argument: 1-based column of the names
  phone_col,         \* argument: 1-based column of the phones
  box,               \* argument: <<x1, y1, x2, y2>>
  exists,            \* os.path.exists of the spreadsheet, the template, the folder
  files,             \* the output folder: file name -> content
  pc,                \* position in process_pdfs
  sheet,             \* workbook.active: row 1 the header, then the data rows
  idx,               \* excel_row_idx of the next row the iterator yields
  processed_count,
  skipped_count,
  outcomes,          \* per data row handled: "missing", "ok" or "raised"
  calls,             \* the add_text_to_pdf invocations, in order
  summaries,         \* the Run Summaries printed: <<processed, skipped>>
  criticals,         \* the "Critical error" lines printed
  \* main
  mpc,               \* position in main
  name_col_letter,
  phone_col_letter,
  m_name_col,        \* main's name_col: an index or None
  m_phone_col,
  font_size,
  \* add_text_to_pdf, called for two rows of a batch
  apc,               \* position in add_text_to_pdf
  template,          \* the pages of the template file: width and height
  todo,              \* the calls still to come: text and output_path of each
  a_text,            \* argument `text`: the text to add
  output_path,       \* argument: the destination
  page_no,           \* the page of reader.pages the loop is at
  writer,            \* the pages added to the PdfWriter
  disk,              \* the output folder: file name -> document
  overlays           \* the overlays create_overlay_stream made, in order

colVars == <<letter, index>>
batchVars == <<script, excel_file, name_col, phone_col, box, exists, files, pc, sheet,
               idx, processed_count, skipped_count, outcomes, calls, summaries,
               criticals>>
mainVars == <<mpc, name_col_letter, phone_col_letter, m_name_col, m_phone_col,
              font_size>>
pdfVars == <<apc, template, todo, a_text, output_path, page_no, writer, disk, overlays>>
vars == <<colVars, batchVars, mainVars, pdfVars>>

\* ------------------------------------------------------------------ floats
\* a Python float: a number (integer-valued here), nan, or +-inf (v = 1, -1)
Num(v) == [kind |-> "num", v |-> v]
NaN == [kind |-> "nan", v |-> 0]
Inf(sign) == [kind |-> "inf", v |-> sign]

\* a < b on floats: false as soon as one side is nan
FloatLT(a, b) ==
  /\ a.kind # "nan" /\ b.kind # "nan"
  /\ \/ a.kind = "num" /\ b.kind = "num" /\ a.v < b.v
     \/ a.kind = "num" /\ b.kind = "inf" /\ b.v = 1
     \/ a.kind = "inf" /\ a.v = -1 /\ b.kind = "num"
     \/ a.kind = "inf" /\ b.kind = "inf" /\ a.v < b.v

\* a >= b on floats: false as soon as one side is nan
FloatGE(a, b) == a.kind # "nan" /\ b.kind # "nan" /\ ~FloatLT(a, b)

\* -a, a + b, a - b on floats: nan spreads, inf + -inf is nan
FloatNeg(a) ==
  IF a.kind = "num" THEN Num(-a.v)
  ELSE IF a.kind = "inf" THEN Inf(-a.v)
  ELSE NaN
FloatAdd(a, b) ==
  IF a.kind = "nan" \/ b.kind = "nan" THEN NaN
  ELSE IF a.kind = "inf" THEN (IF b.kind = "inf" /\ b.v # a.v THEN NaN ELSE a)
  ELSE IF b.kind = "inf" THEN b
  ELSE Num(a.v + b.v)
FloatSub(a, b) == FloatAdd(a, FloatNeg(b))
\* a / d, d a positive integer that divides a
FloatDiv(a, d) == IF a.kind = "num" THEN Num(a.v \div d) ELSE a
\* a float of points counted in quarter points, the unit of every placement
\* below: the halves and quarters the placement takes are whole numbers of it
InQuarters(a) == IF a.kind = "num" THEN Num(4 * a.v) ELSE a

\* ------------------------------------------------------------ the sheet
Jane == <<"j","a","n","e"," ","d","o","e">>
Maria == <<"m","a","r","i","a"," ","d","e"," ","l","a"," ","c","r","u","z">>
PhonePlus == <<"+","1"," ","5","5","5","-","0","1","0","0">>
PhoneTab == <<"5","5","5","\t","0","1","0","0">>
PhoneDigits == <<"1","5","5","5","0","1","0","0">>
DotPdf == <<".","p","d","f">>
DotXlsx == <<".","x","l","s","x">>

\* the values a cell of the name column holds
NameValues == {PyNone, PyStr(<<>>), PyStr(Jane), PyStr(Maria)}
\* the values a cell of the phone column holds: text, or a number cell
PhoneValues == {PyNone, PyStr(PhonePlus), PyStr(PhoneTab), PyInt(15550100)}
\* the columns of the sheet: A the names, B ignored, C the phones
ColumnValues == <<NameValues, {PyNone}, PhoneValues>>
NumCols == Len(ColumnValues)
SheetRows == {r \in [1..NumCols -> UNION Range(ColumnValues)] :
                \A c \in 1..NumCols : r[c] \in ColumnValues[c]}
Header == <<PyStr(<<"n","a","m","e">>), PyNone, PyStr(<<"p","h","o","n","e">>)>>
SeqsUpTo(S, n) == UNION {[1..k -> S] : k \in 0..n}
Sheets == {<<Header>> \o data : data \in SeqsUpTo(SheetRows, MaxRows)}

ExcelFiles == {<<"d">> \o StrUpper(DotXlsx), <<"d",".","c","s","v">>}
Scripts == {"main", "add_text_using_x_y"}
DefaultBox == <<Num(0), Num(0), Num(2), Num(2)>>
\* a file left in the output folder by an earlier run
OldFile == [text |-> <<"o","l","d">>, complete |-> TRUE, row |-> 0]
NoFiles == [p \in {} |-> OldFile]

\* ---------------------------------------------------------- add_text_to_pdf
\* where a call of add_text_to_pdf raises: reading the template, on a page
\* (measuring, rendering the overlay, merging), opening the destination, or
\* in writer.write after the destination was opened; "none": it returns
FailPoints == {"none", "reader", "page", "open", "write"}

\* a faulty variant: the destination is opened for appending, its content kept
OpenAppend(fs, path, row) ==
  [p \in DOMAIN fs \cup {path} |->
     IF p = path
     THEN [text |-> IF p \in DOMAIN fs THEN fs[p].text ELSE <<>>,
           complete |-> FALSE, row |-> row]
     ELSE fs[p]]

\* open(output_path, "wb"): the file is created, or truncated, and is empty
OpenWb(fs, path, row) ==
  [p \in DOMAIN fs \cup {path} |->
     IF p = path THEN [text |-> <<>>, complete |-> FALSE, row |-> row] ELSE fs[p]]

\* writer.write(f_out) running to its end: the whole document follows what
\* the opened file holds
WriteAll(fs, path, text, row) ==
  [fs EXCEPT ![path] = [text |-> fs[path].text \o text, complete |-> TRUE, row |-> row]]

\* add_text_to_pdf(pdf_template, output_path, text, ...) raising at `fail`:
\* the folder afterwards, and whether the call raised
add_text_to_pdf(fs, path, text, row, fail) ==
  IF fail \in {"reader", "page", "open"} THEN [files |-> fs, raised |-> TRUE]
  ELSE IF fail = "write" THEN [files |-> OpenWb(fs, path, row), raised |-> TRUE]
  ELSE [files |-> WriteAll(OpenWb(fs, path, row), path, text, row), raised |-> FALSE]

\* the same call step by step
\* pdfmetrics.stringWidth(text, font_name, font_size) in quarter points, for
\* a font whose every glyph is half an em wide
StringWidth(txt, size) == Num(2 * Len(txt) * size)

\* a faulty variant: the box is centred on the page, y from the page height
PageOverlayOnPage(page, txt, b, size) ==
  LET text_width == StringWidth(txt, size)
      x1 == InQuarters(b[1])
      x2 == InQuarters(b[3])
      box_width == FloatSub(x2, x1)
      x == FloatAdd(x1, FloatDiv(FloatSub(box_width, text_width), 2))
      y == FloatAdd(FloatDiv(FloatSub(InQuarters(page.height), Num(4 * size)), 2),
                    Num(size))
  IN [text |-> txt, width |-> page.width, height |-> page.height, x |-> x, y |-> y]

\* a faulty variant: every overlay has the size of the template's first page
PageOverlayFirstSize(page, txt, b, size) ==
  LET text_width == StringWidth(txt, size)
      x1 == InQuarters(b[1])
      y1 == InQuarters(b[2])
      x2 == InQuarters(b[3])
      y2 == InQuarters(b[4])
      box_width == FloatSub(x2, x1)
      box_height == FloatSub(y2, y1)
      x == FloatAdd(x1, FloatDiv(FloatSub(box_width, text_width), 2))
      y == FloatAdd(FloatAdd(y1, FloatDiv(FloatSub(box_height, Num(4 * size)), 2)),
                    Num(size))
  IN [text |-> txt, width |-> template[1].width, height |-> template[1].height,
      x |-> x, y |-> y]

\* the body of the page loop up to create_overlay_stream: the overlay made for
\* `page`, a canvas of the page's size with the text drawn at (x, y); x and y
\* in quarter points
PageOverlay(page, txt, b, size) ==
  LET width == page.width
      height == page.height
      text_width == StringWidth(txt, size)
      x1 == InQuarters(b[1])
      y1 == InQuarters(b[2])
      x2 == InQuarters(b[3])
      y2 == InQuarters(b[4])
      box_width == FloatSub(x2, x1)
      box_height == FloatSub(y2, y1)
      x == FloatAdd(x1, FloatDiv(FloatSub(box_width, text_width), 2))
      y == FloatAdd(FloatAdd(y1, FloatDiv(FloatSub(box_height, Num(4 * size)), 2)),
                    Num(size))
  IN [text |-> txt, width |-> width, height |-> height, x |-> x, y |-> y]

\* reader.pages: the page objects of a freshly read template
ReaderPages(tpl) ==
  [i \in 1..Len(tpl) |->
     [no |-> i, width |-> tpl[i].width, height |-> tpl[i].height, merged |-> <<>>]]

\* page.merge_page(overlay_page): the overlay is drawn on top of the page
MergePage(page, overlay) == [page EXCEPT !.merged = Append(@, overlay)]

\* a document of the output folder
Doc(pages, complete) == [pages |-> pages, complete |-> complete]
NoDocs == [p \in {} |-> Doc(<<>>, TRUE)]

\* open(output_path, "wb") on the folder of documents
OpenDocWb(d, path) ==
  [p \in DOMAIN d \cup {path} |-> IF p = path THEN Doc(<<>>, FALSE) ELSE d[p]]

\* ------------------------------------------------------------- process_pdfs
Min(a, b) == IF a < b THEN a ELSE b
Max(a, b) == IF a > b THEN a ELSE b

\* a faulty variant: the template is not checked
CheckPathsNoTemplate(file, ex) ==
  IF ~ex.excel THEN "returned"
  ELSE IF ~EndsWith(StrLower(file), DotXlsx) THEN "returned"
  ELSE "checked"

\* the three early returns of process_pdfs, in the order of the code
CheckPathsResult(file, ex) ==
  IF ~ex.excel THEN "returned"
  ELSE IF ~EndsWith(StrLower(file), DotXlsx) THEN "returned"
  ELSE IF ~ex.template THEN "returned"
  ELSE "checked"

\* a faulty variant: no try around the batch, the exception reaches the caller
OuterExceptMissing(crit) == [pc |-> "escaped", criticals |-> crit]

\* `except Exception as e: print(f"Critical error: {e}")`
OuterExcept(crit) == [pc |-> "critical", criticals |-> crit + 1]

\* the tuple iter_rows(min_col=lo, max_col=hi, values_only=True) yields for
\* sheet row r; a column past the sheet's last one reads None
RowSlice(r, lo, hi) ==
  [i \in 1..(hi - lo + 1) |-> IF lo + i - 1 <= Len(r) THEN r[lo + i - 1] ELSE PyNone]

\* `name is None or number is None`
RowMissing(name, number) == name.kind = "none" \/ number.kind = "none"

\* the text handed to add_text_to_pdf
display_name(scr, name) ==
  IF scr = "main"
  THEN Title(JoinSpace(Take(Split(Str(name)), 2)))
  ELSE Title(Str(name))

\* str(number).strip().replace(" ", "").replace("+", "").replace("-", "")
Sanitize(number) == Remove(Remove(Remove(Strip(Str(number)), " "), "+"), "-")

\* output_filename = f"{number}.pdf"
OutputFilename(number) == Sanitize(number) \o DotPdf

\* a faulty variant: no try around the row, its exception ends the batch
RowTailUncaught(raised, processed, skipped, crit) ==
  IF raised
  THEN [processed |-> processed, skipped |-> skipped, pc |-> "critical",
        criticals |-> crit + 1]
  ELSE [processed |-> processed + 1, skipped |-> skipped, pc |-> "loop",
        criticals |-> crit]

\* a faulty variant: processed_count += 1 stands before the add_text_to_pdf
\* call, so a row that raises is counted twice
RowTailCountedFirst(raised, processed, skipped, crit) ==
  IF raised
  THEN [processed |-> processed + 1, skipped |-> skipped + 1, pc |-> "loop",
        criticals |-> crit]
  ELSE [processed |-> processed + 1, skipped |-> skipped, pc |-> "loop",
        criticals |-> crit]

\* the end of the row's try: processed_count += 1, or the row's except
RowTail(raised, processed, skipped, crit) ==
  IF raised
  THEN [processed |-> processed, skipped |-> skipped + 1, pc |-> "loop",
        criticals |-> crit]
  ELSE [processed |-> processed + 1, skipped |-> skipped, pc |-> "loop",
        criticals |-> crit]

\* the three os.path checks and early returns
CheckPaths ==
  /\ pc = "start"
  /\ pc' = CheckPathsResult(excel_file, exists)
  /\ UNCHANGED <<script, excel_file, name_col, phone_col, box, exists, files, sheet,
                 idx, processed_count, skipped_count, outcomes, calls, summaries,
                 criticals>>
  /\ UNCHANGED <<colVars, mainVars, pdfVars>>

\* `if not os.path.exists(output_folder): os.makedirs(output_folder)`;
\* makedirs may raise
EnsureOutputFolder ==
  /\ pc = "checked"
  /\ \/ /\ exists.folder
        /\ pc' = "folder_ok"
        /\ UNCHANGED <<exists, criticals>>
     \/ /\ ~exists.folder
        /\ exists' = [exists EXCEPT !.folder = TRUE]
        /\ pc' = "folder_ok"
        /\ UNCHANGED criticals
     \/ /\ ~exists.folder
        /\ pc' = OuterExcept(criticals).pc
        /\ criticals' = OuterExcept(criticals).criticals
        /\ UNCHANGED exists
  /\ UNCHANGED <<script, excel_file, name_col, phone_col, box, files, sheet, idx,
                 processed_count, skipped_count, outcomes, calls, summaries>>
  /\ UNCHANGED <<colVars, mainVars, pdfVars>>

\* load_workbook, workbook.active, the two counters; load_workbook may raise
LoadWorkbook ==
  /\ pc = "folder_ok"
  /\ \/ /\ \E sh \in Sheets : sheet' = sh
        /\ idx' = 2
        /\ processed_count' = 0
        /\ skipped_count' = 0
        /\ pc' = "loop"
        /\ UNCHANGED criticals
     \/ /\ pc' = OuterExcept(criticals).pc
        /\ criticals' = OuterExcept(criticals).criticals
        /\ UNCHANGED <<sheet, idx, processed_count, skipped_count>>
  /\ UNCHANGED <<script, excel_file, name_col, phone_col, box, exists, files,
                 outcomes, calls, summaries>>
  /\ UNCHANGED <<colVars, mainVars, pdfVars>>

\* one pass of the for loop: the iterator yields row idx and the body runs
ProcessRow ==
  /\ pc = "loop"
  /\ idx <= Len(sheet)
  /\ LET lo == Min(name_col, phone_col)
         hi == Max(name_col, phone_col)
         row == RowSlice(sheet[idx], lo, hi)
         name == row[name_col - lo + 1]
         number == row[phone_col - lo + 1]
     IN IF RowMissing(name, number)
        THEN /\ skipped_count' = skipped_count + 1
             /\ outcomes' = Append(outcomes, "missing")
             /\ UNCHANGED <<files, calls, processed_count, pc, criticals>>
        ELSE \E fail \in FailPoints :
               LET text == display_name(script, name)
                   path == OutputFilename(number)
                   r == add_text_to_pdf(files, path, text, idx, fail)
                   t == RowTail(r.raised, processed_count, skipped_count, criticals)
               IN /\ files' = r.files
                  /\ calls' = Append(calls, [row |-> idx, text |-> text, path |-> path,
                                             raised |-> r.raised])
                  /\ outcomes' = Append(outcomes, IF r.raised THEN "raised" ELSE "ok")
                  /\ processed_count' = t.processed
                  /\ skipped_count' = t.skipped
                  /\ pc' = t.pc
                  /\ criticals' = t.criticals
  /\ idx' = idx + 1
  /\ UNCHANGED <<script, excel_file, name_col, phone_col, box, exists, sheet, summaries>>
  /\ UNCHANGED <<colVars, mainVars, pdfVars>>

\* the row iterator raises: outside the row's try, inside the batch's
IterRaise ==
  /\ pc = "loop"
  /\ pc' = OuterExcept(criticals).pc
  /\ criticals' = OuterExcept(criticals).criticals
  /\ UNCHANGED <<script, excel_file, name_col, phone_col, box, exists, files, sheet,
                 idx, processed_count, skipped_count, outcomes, calls, summaries>>
  /\ UNCHANGED <<colVars, mainVars, pdfVars>>

\* the iterator is exhausted: the Run Summary is printed
ReportSummary ==
  /\ pc = "loop"
  /\ idx > Len(sheet)
  /\ summaries' = Append(summaries, <<processed_count, skipped_count>>)
  /\ pc' = "done"
  /\ UNCHANGED <<script, excel_file, name_col, phone_col, box, exists, files, sheet,
                 idx, processed_count, skipped_count, outcomes, calls, criticals>>
  /\ UNCHANGED <<colVars, mainVars, pdfVars>>

BatchNext ==
  \/ CheckPaths
  \/ EnsureOutputFolder
  \/ LoadWorkbook
  \/ ProcessRow
  \/ IterRaise
  \/ ReportSummary

\* font_size=24, the default of process_pdfs and of the font size prompt
DefaultFontSize == 24

Pending == [kind |-> "pending", s |-> <<>>, n |-> 0]

ColIdle == letter = <<>> /\ index = Pending
MainIdle ==
  /\ mpc = "off"
  /\ name_col_letter = <<>>
  /\ phone_col_letter = <<>>
  /\ m_name_col = PyNone
  /\ m_phone_col = PyNone
  /\ font_size = DefaultFontSize
PdfIdle ==
  /\ apc = "off"
  /\ template = <<>>
  /\ todo = <<>>
  /\ a_text = <<>>
  /\ output_path = <<>>
  /\ page_no = 0
  /\ writer = <<>>
  /\ disk = NoDocs
  /\ overlays = <<>>

\* a call process_pdfs(excel_file, pdf_template, output_folder, 1, 3, box) of
\* either script, in any state of the file system
Init ==
  /\ ColIdle
  /\ MainIdle
  /\ PdfIdle
  /\ script \in Scripts
  /\ excel_file \in ExcelFiles
  /\ name_col = col_letter_to_index(<<"A">>).n
  /\ phone_col = col_letter_to_index(<<"C">>).n
  /\ box = DefaultBox
  /\ exists \in [excel : BOOLEAN, template : BOOLEAN, folder : BOOLEAN]
  /\ files \in IF exists.folder
               THEN {NoFiles, [p \in {PhoneDigits \o DotPdf} |-> OldFile]}
               ELSE {NoFiles}
  /\ pc = "start"
  /\ sheet = <<>>
  /\ idx = 0
  /\ processed_count = 0
  /\ skipped_count = 0
  /\ outcomes = <<>>
  /\ calls = <<>>
  /\ summaries = <<>>
  /\ criticals = 0

Next == BatchNext

Spec == Init /\ [][Next]_vars

\* ------------------------------------------------------ SpecCol: the resolver
\* the characters typed into a column label
ColChars == {"A", "B", "Z", "a", "b", "z", "1", " "}
Labels == SeqsUpTo(ColChars, MaxLabelLen)

BatchIdle ==
  /\ script \in Scripts
  /\ excel_file = <<>>
  /\ name_col = 0
  /\ phone_col = 0
  /\ box = DefaultBox
  /\ exists \in [excel : BOOLEAN, template : BOOLEAN, folder : BOOLEAN]
  /\ files = NoFiles
  /\ pc = "idle"
  /\ sheet = <<>>
  /\ idx = 0
  /\ processed_count = 0
  /\ skipped_count = 0
  /\ outcomes = <<>>
  /\ calls = <<>>
  /\ summaries = <<>>
  /\ criticals = 0

InitCol ==
  /\ letter \in Labels
  /\ index = Pending
  /\ MainIdle
  /\ BatchIdle
  /\ PdfIdle
  /\ script = "main"
  /\ exists = [excel |-> TRUE, template |-> TRUE, folder |-> TRUE]

\* index = col_letter_to_index(letter)
ResolveColumn ==
  /\ index = Pending
  /\ index' = col_letter_to_index(letter)
  /\ UNCHANGED <<letter, batchVars, mainVars, pdfVars>>

NextCol == ResolveColumn

SpecCol == InitCol /\ [][NextCol]_vars

\* --------------------------------------------------------------------- main
\* float(s) of the text of a prompt: a signed run of digits, nan, inf or
\* infinity in any case, whitespace around it ignored; anything else raises
\* ValueError (ok = FALSE)
RECURSIVE DigitsValue(_)
DigitsValue(t) ==
  IF t = <<>> THEN 0
  ELSE 10 * DigitsValue(SubSeq(t, 1, Len(t) - 1)) + (IndexIn(t[Len(t)], Digits) - 1)

ParseFloat(s) ==
  LET t == StrLower(Strip(s))
      signed == t # <<>> /\ Head(t) \in {"+", "-"}
      sign == IF signed /\ Head(t) = "-" THEN -1 ELSE 1
      body == IF signed THEN Tail(t) ELSE t
  IN IF body = <<"n","a","n">> THEN [ok |-> TRUE, val |-> NaN]
     ELSE IF body \in {<<"i","n","f">>, <<"i","n","f","i","n","i","t","y">>}
          THEN [ok |-> TRUE, val |-> Inf(sign)]
     ELSE IF body # <<>> /\ \A i \in 1..Len(body) : IsDigit(body[i])
          THEN [ok |-> TRUE, val |-> Num(sign * DigitsValue(body))]
     ELSE [ok |-> FALSE, val |-> NaN]

\* int(s) of the text of the font size prompt: a signed run of digits
ParseInt(s) ==
  LET t == Strip(s)
      signed == t # <<>> /\ Head(t) \in {"+", "-"}
      sign == IF signed /\ Head(t) = "-" THEN -1 ELSE 1
      body == IF signed THEN Tail(t) ELSE t
  IN IF body # <<>> /\ \A i \in 1..Len(body) : IsDigit(body[i])
     THEN [ok |-> TRUE, val |-> sign * DigitsValue(body)]
     ELSE [ok |-> FALSE, val |-> 0]

\* what the user types at the prompts
MenuInputs == {<<"1">>, <<" ","2">>, <<"x">>}
ExcelInputs == {<<>>, <<"d">>, <<"d">> \o StrUpper(DotXlsx)}
LetterInputs == {<<>>, <<" ","c"," ">>, <<"1">>, <<"A","a">>}
CoordInputs == {<<"1">>, <<" ","2">>, <<"n","a","n">>, <<"x">>}
SizeInputs == {<<>>, <<"1","2">>, <<"0">>, <<"x">>}
InputDataXlsx == <<"i","n","p","u","t","_","d","a","t","a">> \o DotXlsx

\* `input(...).strip() or default`
InputOr(typed, default) == IF Strip(typed) = <<>> THEN default ELSE Strip(typed)

\* `if not excel_file.lower().endswith('.xlsx'): excel_file += '.xlsx'`
WithXlsx(file) == IF EndsWith(StrLower(file), DotXlsx) THEN file ELSE file \o DotXlsx

\* `if x1 >= x2 or y1 >= y2` of get_user_input_coordinates
BoxRejected(b) == FloatGE(b[1], b[3]) \/ FloatGE(b[2], b[4])

\* `if not name_col or not phone_col`
ColumnsRejected(n, p) == Falsy(n) \/ Falsy(p)

\* the menu prompt: "1" starts the prompts, "2" exits, anything else repeats
MenuChoice ==
  /\ mpc = "menu"
  /\ \E typed \in MenuInputs :
       LET choice == Strip(typed)
       IN mpc' = IF choice = <<"1">> THEN "files"
                 ELSE IF choice = <<"2">> THEN "exit"
                 ELSE "menu"
  /\ UNCHANGED <<name_col_letter, phone_col_letter, m_name_col, m_phone_col, font_size>>
  /\ UNCHANGED <<colVars, batchVars, pdfVars>>

\* the file, folder and column prompts, and the test of the two columns
AskFilesAndColumns ==
  /\ mpc = "files"
  /\ \E f \in ExcelInputs, n \in LetterInputs, p \in LetterInputs :
       /\ excel_file' = WithXlsx(InputOr(f, InputDataXlsx))
       /\ name_col_letter' = InputOr(n, <<"A">>)
       /\ phone_col_letter' = InputOr(p, <<"C">>)
       /\ m_name_col' = col_letter_to_index(name_col_letter')
       /\ m_phone_col' = col_letter_to_index(phone_col_letter')
       /\ mpc' = IF ColumnsRejected(m_name_col', m_phone_col') THEN "menu" ELSE "coords"
  /\ UNCHANGED font_size
  /\ UNCHANGED <<script, name_col, phone_col, box, exists, files, pc, sheet, idx,
                 processed_count, skipped_count, outcomes, calls, summaries, criticals>>
  /\ UNCHANGED <<colVars, pdfVars>>

\* one pass of the loop of get_user_input_coordinates
AskCoordinates ==
  /\ mpc = "coords"
  /\ \E t1 \in CoordInputs, t2 \in CoordInputs, t3 \in CoordInputs, t4 \in CoordInputs :
       LET x1 == ParseFloat(t1)
           y1 == ParseFloat(t2)
           x2 == ParseFloat(t3)
           y2 == ParseFloat(t4)
           b == <<x1.val, y1.val, x2.val, y2.val>>
       IN IF ~x1.ok \/ ~y1.ok \/ ~x2.ok \/ ~y2.ok \/ BoxRejected(b)
          THEN UNCHANGED <<mpc, box>>
          ELSE mpc' = "size" /\ box' = b
  /\ UNCHANGED <<name_col_letter, phone_col_letter, m_name_col, m_phone_col, font_size>>
  /\ UNCHANGED <<script, excel_file, name_col, phone_col, exists, files, pc, sheet, idx,
                 processed_count, skipped_count, outcomes, calls, summaries, criticals>>
  /\ UNCHANGED <<colVars, pdfVars>>

\* get_user_input_font returns, then one pass of the loop of
\* get_user_input_font_size
AskFontSize ==
  /\ mpc = "size"
  /\ \E typed \in SizeInputs :
       LET size == ParseInt(typed)
       IN IF Strip(typed) = <<>>
          THEN mpc' = "call" /\ font_size' = DefaultFontSize
          ELSE IF size.ok /\ size.val > 0
          THEN mpc' = "call" /\ font_size' = size.val
          ELSE UNCHANGED <<mpc, font_size>>
  /\ UNCHANGED <<name_col_letter, phone_col_letter, m_name_col, m_phone_col>>
  /\ UNCHANGED <<colVars, batchVars, pdfVars>>

\* process_pdfs(excel_file, pdf_template, output_folder, name_col, phone_col,
\* box, font_size, font_name) is entered
CallProcessPdfs ==
  /\ mpc = "call"
  /\ mpc' = "in_batch"
  /\ pc' = "start"
  /\ name_col' = m_name_col.n
  /\ phone_col' = m_phone_col.n
  /\ UNCHANGED <<name_col_letter, phone_col_letter, m_name_col, m_phone_col, font_size>>
  /\ UNCHANGED <<script, excel_file, box, exists, files, sheet, idx, processed_count,
                 skipped_count, outcomes, calls, summaries, criticals>>
  /\ UNCHANGED <<colVars, pdfVars>>

\* process_pdfs returns to the menu loop; what it does from pc = "start" on
\* is the state machine BatchNext, explored under Spec.  The locals of the
\* finished pass are dead at the top of the loop: every one is assigned again
\* before it is read, and they are cleared here.
ProcessPdfsReturns ==
  /\ mpc = "in_batch"
  /\ mpc' = "menu"
  /\ pc' = "idle"
  /\ excel_file' = <<>>
  /\ name_col_letter' = <<>>
  /\ phone_col_letter' = <<>>
  /\ m_name_col' = PyNone
  /\ m_phone_col' = PyNone
  /\ name_col' = 0
  /\ phone_col' = 0
  /\ box' = DefaultBox
  /\ font_size' = DefaultFontSize
  /\ UNCHANGED <<script, exists, files, sheet, idx, processed_count, skipped_count,
                 outcomes, calls, summaries, criticals>>
  /\ UNCHANGED <<colVars, pdfVars>>

InitMain ==
  /\ ColIdle
  /\ BatchIdle
  /\ PdfIdle
  /\ exists = [excel |-> TRUE, template |-> TRUE, folder |-> TRUE]
  /\ mpc = "menu"
  /\ name_col_letter = <<>>
  /\ phone_col_letter = <<>>
  /\ m_name_col = PyNone
  /\ m_phone_col = PyNone
  /\ font_size = DefaultFontSize

NextMain ==
  \/ MenuChoice
  \/ AskFilesAndColumns
  \/ AskCoordinates
  \/ AskFontSize
  \/ CallProcessPdfs
  \/ ProcessPdfsReturns

SpecMain == InitMain /\ [][NextMain]_vars

\* -------------------------------------------- SpecPdf: add_text_to_pdf by steps
\* what is typed at the four coordinate prompts
TypedBoxes ==
  {<<<<"0">>, <<"0">>, <<"1","2">>, <<"6">>>>,
   <<<<"1">>, <<"2">>, <<"9">>, <<"5">>>>,
   <<<<"-","i","n","f">>, <<"-","i","n","f">>, <<"1","2">>, <<"6">>>>,
   <<<<"6">>, <<"0">>, <<"1">>, <<"6">>>>}
\* the boxes get_user_input_coordinates returns for them
ReturnedBoxes ==
  {[i \in 1..4 |-> ParseFloat(t[i]).val] :
     t \in {u \in TypedBoxes :
              /\ \A i \in 1..4 : ParseFloat(u[i]).ok
              /\ ~BoxRejected([i \in 1..4 |-> ParseFloat(u[i]).val])}}
\* the sizes get_user_input_font_size returns for "2" and "4"
FontSizes == {ParseInt(<<"2">>).val, ParseInt(<<"4">>).val}
\* the media boxes of template pages: portrait and landscape
PageSizes == {[width |-> Num(10), height |-> Num(20)],
              [width |-> Num(20), height |-> Num(10)]}
Templates == SeqsUpTo(PageSizes, MaxPages)
\* the text and destination process_pdfs passes for a row
Texts == {display_name("main", PyStr(<<"j","o">>)), display_name("main", PyStr(Jane))}
Paths == {OutputFilename(PyStr(PhonePlus)), OutputFilename(PyStr(PhoneTab))}
Requests == [text : Texts, path : Paths]
\* a document left in the output folder by an earlier run
OldDoc == Doc(<<[no |-> 1, width |-> Num(1), height |-> Num(1), merged |-> <<>>]>>, TRUE)

\* two rows of a batch are about to be rendered
InitPdf ==
  /\ ColIdle
  /\ script = "main"
  /\ excel_file = <<>>
  /\ name_col = 0
  /\ phone_col = 0
  /\ box \in ReturnedBoxes
  /\ exists = [excel |-> TRUE, template |-> TRUE, folder |-> TRUE]
  /\ files = NoFiles
  /\ pc = "idle"
  /\ sheet = <<>>
  /\ idx = 0
  /\ processed_count = 0
  /\ skipped_count = 0
  /\ outcomes = <<>>
  /\ calls = <<>>
  /\ summaries = <<>>
  /\ criticals = 0
  /\ mpc = "off"
  /\ name_col_letter = <<>>
  /\ phone_col_letter = <<>>
  /\ m_name_col = PyNone
  /\ m_phone_col = PyNone
  /\ font_size \in FontSizes
  /\ apc = "idle"
  /\ template \in Templates
  /\ todo \in [1..2 -> Requests]
  /\ a_text = <<>>
  /\ output_path = <<>>
  /\ page_no = 0
  /\ writer = <<>>
  /\ disk \in {NoDocs, [p \in Paths |-> OldDoc]}
  /\ overlays = <<>>

\* add_text_to_pdf is called for the next row: reader = PdfReader(input_path),
\* which may raise, and writer = PdfWriter()
CallAddText ==
  /\ apc \in {"idle", "returned", "raised"}
  /\ todo # <<>>
  /\ a_text' = Head(todo).text
  /\ output_path' = Head(todo).path
  /\ todo' = Tail(todo)
  /\ writer' = <<>>
  /\ \/ apc' = "pages" /\ page_no' = 1
     \/ apc' = "raised" /\ page_no' = 0
  /\ UNCHANGED <<template, disk, overlays>>
  /\ UNCHANGED <<colVars, batchVars, mainVars>>

\* one pass of `for page in reader.pages`: the overlay is made, merged onto
\* the page, and the page added to the writer; or a step of the pass raises
ProcessPage ==
  /\ apc = "pages"
  /\ page_no <= Len(template)
  /\ \/ LET page == ReaderPages(template)[page_no]
            overlay_page == PageOverlay(page, a_text, box, font_size)
        IN /\ overlays' = Append(overlays, overlay_page)
           /\ writer' = Append(writer, MergePage(page, overlay_page))
           /\ page_no' = page_no + 1
           /\ UNCHANGED apc
     \/ /\ apc' = "raised"
        /\ UNCHANGED <<overlays, writer, page_no>>
  /\ UNCHANGED <<template, todo, a_text, output_path, disk>>
  /\ UNCHANGED <<colVars, batchVars, mainVars>>

\* the loop is over: `with open(output_path, "wb") as f_out`, which may raise
OpenDestination ==
  /\ apc = "pages"
  /\ page_no > Len(template)
  /\ \/ apc' = "opened" /\ disk' = OpenDocWb(disk, output_path)
     \/ apc' = "raised" /\ UNCHANGED disk
  /\ UNCHANGED <<template, todo, a_text, output_path, page_no, writer, overlays>>
  /\ UNCHANGED <<colVars, batchVars, mainVars>>

\* writer.write(f_out): the document is written and the call returns, or the
\* write raises and the opened file stays as it is
WriteDocument ==
  /\ apc = "opened"
  /\ \/ /\ apc' = "returned"
        /\ disk' = [disk EXCEPT ![output_path] = Doc(writer, TRUE)]
     \/ apc' = "raised" /\ UNCHANGED disk
  /\ UNCHANGED <<template, todo, a_text, output_path, page_no, writer, overlays>>
  /\ UNCHANGED <<colVars, batchVars, mainVars>>

NextPdf ==
  \/ CallAddText
  \/ ProcessPage
  \/ OpenDestination
  \/ WriteDocument

SpecPdf == InitPdf /\ [][NextPdf]_vars

\* ------------------------------------------------------------------ claims
\* the name and phone cells of the i-th data row handled (sheet row i + 1)
NameCell(i) == sheet[i + 1][name_col]
PhoneCell(i) == sheet[i + 1][phone_col]
CallsOfRow(i) == {k \in 1..Len(calls) : calls[k].row = i + 1}

\* C1: a row whose processing raises adds exactly one to skipped-count, leaves
\* processed-count alone, does not end the batch or reach the caller; the loop
\* goes on to the next row, and a batch that completes has handled every data
\* row and printed one Run Summary.
C1_RowFailureIsolated ==
  /\ [][(/\ pc = "loop"
         /\ Len(outcomes') = Len(outcomes) + 1
         /\ outcomes'[Len(outcomes')] = "raised")
        => (/\ skipped_count' = skipped_count + 1
            /\ processed_count' = processed_count
            /\ criticals' = criticals
            /\ pc' = "loop"
            /\ idx' = idx + 1)]_vars
  /\ [](pc = "done" => Len(outcomes) = Len(sheet) - 1 /\ Len(summaries) = 1)
  /\ [](pc = "loop" => Len(outcomes) = idx - 2 /\ idx <= Len(sheet) + 1)

\* a batch that completed although its first data row raised and a later row
\* was processed
C1_Witness ==
  /\ pc = "done"
  /\ Len(outcomes) >= 2
  /\ outcomes[1] = "raised"
  /\ \E j \in 2..Len(outcomes) : outcomes[j] = "ok"
  /\ summaries = <<<<processed_count, skipped_count>>>>

\* C2: after a row whose add_text_to_pdf call raised, the row's destination
\* either does not exist or holds a complete document.
C2_NoPartialFile ==
  \A k \in 1..Len(calls) :
    (calls[k].raised /\ \A m \in (k + 1)..Len(calls) : calls[m].path # calls[k].path)
      => (calls[k].path \notin DOMAIN files \/ files[calls[k].path].complete)

\* a cell value that is absent: None, or the empty string
Absent(v) == v.kind = "none" \/ (v.kind = "str" /\ v.s = <<>>)

\* C3: a data row whose name or phone is absent (None or empty) is counted as
\* skipped without any add_text_to_pdf call.
C3_AbsentRowSkipped ==
  \A i \in 1..Len(outcomes) :
    (Absent(NameCell(i)) \/ Absent(PhoneCell(i)))
      => (outcomes[i] = "missing" /\ CallsOfRow(i) = {})

\* the words of s: the maximal runs of non-whitespace characters, as <<from, to>>
WordSpans(s) ==
  {w \in (1..Len(s)) \X (1..Len(s)) :
     /\ w[1] <= w[2]
     /\ \A k \in w[1]..w[2] : ~IsSpace(s[k])
     /\ w[1] = 1 \/ IsSpace(s[w[1] - 1])
     /\ w[2] = Len(s) \/ IsSpace(s[w[2] + 1])}
\* the n-th word of s
NthWord(s, n) ==
  LET w == CHOOSE v \in WordSpans(s) :
             Cardinality({u \in WordSpans(s) : u[1] < v[1]}) = n - 1
  IN SubSeq(s, w[1], w[2])
\* at most the first two words of s, title-cased, joined by one space
FirstTwoTitled(s) ==
  LET n == Cardinality(WordSpans(s))
  IN IF n = 0 THEN <<>>
     ELSE IF n = 1 THEN Title(NthWord(s, 1))
     ELSE Title(NthWord(s, 1)) \o <<" ">> \o Title(NthWord(s, 2))

\* C4: the text of every add_text_to_pdf call is the first two words of the
\* row's name, title-cased and joined by one space, in either script.
C4_DisplayNameTwoTokens ==
  \A k \in 1..Len(calls) :
    calls[k].text = FirstTwoTitled(Str(NameCell(calls[k].row - 1)))

\* C5: the file name of every add_text_to_pdf call is <stem>.pdf, the stem
\* being the phone's string form without any whitespace, "+" or "-".
C5_StemSanitized ==
  \A k \in 1..Len(calls) :
    LET phone == Str(PhoneCell(calls[k].row - 1))
        Kept(c) == ~IsSpace(c) /\ c # "+" /\ c # "-"
    IN calls[k].path = SelectSeq(phone, Kept) \o DotPdf

\* C6: when two rows with the same sanitized phone were both rendered, the
\* later one being the last row of that phone, the phone's file is the later
\* row's complete render, and processed-count has counted every rendered row.
C6_LaterRowSurvives ==
  \A i, j \in 1..Len(calls) :
    (/\ i < j
     /\ calls[i].path = calls[j].path
     /\ ~calls[i].raised /\ ~calls[j].raised
     /\ \A m \in (j + 1)..Len(calls) : calls[m].path # calls[j].path)
    => /\ calls[j].path \in DOMAIN files
       /\ files[calls[j].path] =
            [text |-> calls[j].text, complete |-> TRUE, row |-> calls[j].row]
       /\ processed_count = Cardinality({m \in 1..Len(calls) : ~calls[m].raised})
       /\ processed_count >= 2

\* a completed batch in which two rows of one phone were rendered with
\* different names
C6_Witness ==
  /\ pc = "done"
  /\ \E i, j \in 1..Len(calls) :
       /\ i < j
       /\ calls[i].path = calls[j].path
       /\ calls[i].text # calls[j].text
       /\ ~calls[i].raised /\ ~calls[j].raised

\* the spreadsheet is missing, is not .xlsx, or the template is missing
PreconditionFails ==
  \/ ~exists.excel
  \/ Len(excel_file) < 5
  \/ StrLower(SubSeq(excel_file, Len(excel_file) - 4, Len(excel_file))) # DotXlsx
  \/ ~exists.template

\* C7: when a precondition fails the batch only returns: the output folder is
\* not created, no file changes, the workbook is not loaded, no row is
\* handled, and neither a Run Summary nor a critical error is printed.
C7_PreconditionFailureTouchesNothing ==
  /\ [][PreconditionFails => UNCHANGED <<exists, files>>]_vars
  /\ [][(PreconditionFails /\ pc = "start") => pc' = "returned"]_vars
  /\ [](PreconditionFails =>
          /\ pc \in {"start", "returned"}
          /\ sheet = <<>>
          /\ outcomes = <<>>
          /\ calls = <<>>
          /\ summaries = <<>>
          /\ criticals = 0)

\* the batch returned because only the template is missing, the output folder absent
C7_Witness ==
  /\ pc = "returned"
  /\ exists.excel
  /\ ~exists.template
  /\ ~exists.folder

\* C8: a failure outside the row's try ends the batch with one critical error
\* printed, no Run Summary, no further row, and nothing raised to the caller.
C8_CriticalAborts ==
  /\ pc # "escaped"
  /\ criticals <= 1
  /\ criticals = 1 <=> pc = "critical"
  /\ pc = "critical" =>
       /\ summaries = <<>>
       /\ ~ENABLED ProcessRow
       /\ ~ENABLED ReportSummary
       /\ Len(outcomes) = idx - 2 \/ idx = 0

\* the row iterator raised after a row was handled, a row still to come
C8_Witness ==
  /\ pc = "critical"
  /\ Len(outcomes) >= 1
  /\ idx <= Len(sheet)

\* C9: main enters process_pdfs only with two positive column indexes and a
\* box with x1 < x2 and y1 < y2.
C9_BatchStartsValid ==
  pc = "start" =>
    /\ name_col >= 1
    /\ phone_col >= 1
    /\ FloatLT(box[1], box[3])
    /\ FloatLT(box[2], box[4])

\* the value of an alphabetic label read as bijective base 26: the sum of
\* digit * 26^(places to the right), A = 1 .. Z = 26 in either case
RECURSIVE Pow26(_)
Pow26(k) == IF k = 0 THEN 1 ELSE 26 * Pow26(k - 1)
RECURSIVE Base26From(_, _)
Base26From(l, i) ==
  IF i > Len(l) THEN 0
  ELSE IndexIn(ToUpperChar(l[i]), Upper) * Pow26(Len(l) - i) + Base26From(l, i + 1)

\* C10: for a non-empty alphabetic label col_letter_to_index is its bijective
\* base-26 value (A 1, Z 26, AA 27, AZ 52, BA 53): positive, the same in
\* either case, and different for labels that differ beyond case.
C10_BijectiveBase26 ==
  (index # Pending /\ IsAlpha(letter)) =>
    /\ index = PyInt(Base26From(letter, 1))
    /\ index.n >= 1
    /\ StrUpper(letter) = <<"A">> => index.n = 1
    /\ StrUpper(letter) = <<"Z">> => index.n = 26
    /\ StrUpper(letter) = <<"A","A">> => index.n = 27
    /\ StrUpper(letter) = <<"A","Z">> => index.n = 52
    /\ StrUpper(letter) = <<"B","A">> => index.n = 53
    /\ col_letter_to_index(StrUpper(letter)) = index
    /\ col_letter_to_index(StrLower(letter)) = index
    /\ \A other \in Labels :
         (IsAlpha(other) /\ StrUpper(other) # StrUpper(letter))
           => col_letter_to_index(other) # index

\* the label bA of mixed case resolved to 53
C10_Witness ==
  /\ letter = <<"b","A">>
  /\ index = PyInt(53)

\* s has no character, or a character that is not a letter
NotAllLetters(s) == s = <<>> \/ \E i \in 1..Len(s) : ~IsLetter(s[i])

\* s between its first and its last character that is not whitespace
Core(s) ==
  LET ns == {i \in 1..Len(s) : ~IsSpace(s[i])}
  IN IF ns = {} THEN <<>>
     ELSE SubSeq(s, CHOOSE i \in ns : \A j \in ns : i <= j,
                    CHOOSE i \in ns : \A j \in ns : i >= j)

\* C11 as stated: col_letter_to_index returns None for the empty string and
\* for every string with a character that is not a letter (digit, symbol,
\* whitespace), and an index only when every character is a letter.
C11_NonAlphabeticRejected ==
  index # Pending =>
    /\ NotAllLetters(letter) => index = PyNone
    /\ index.kind = "int" => ~NotAllLetters(letter)

\* C11: col_letter_to_index always returns, None or an index; it returns None
\* exactly when the label without its leading and trailing whitespace is empty
\* or has a character that is not a letter (digit, symbol, whitespace between
\* letters), and otherwise a positive index.
C11_StrippedNonAlphabeticRejected ==
  index # Pending =>
    /\ index.kind \in {"none", "int"}
    /\ NotAllLetters(Core(letter)) <=> index = PyNone
    /\ index.kind = "int" => (~NotAllLetters(Core(letter)) /\ index.n >= 1)

\* a label with a digit after a letter resolved to None, and a label of
\* letters within whitespace resolved to an index
C11_Witness ==
  /\ index # Pending
  /\ \/ letter = <<"a","1">> /\ index = PyNone
     \/ letter = <<" ","z">> /\ index = PyInt(26)

\* C12: for a box with x1 < x2 and a text whose measured width is smaller than
\* the box width, every overlay's x puts the text strictly inside the box,
\* x1 < x and x + text_width < x2, with equal margins on both sides; a text
\* wider than the box is drawn whole, overflowing the box equally on both sides.
C12_CenteredStrictlyInside ==
  \A k \in 1..Len(overlays) :
    LET o == overlays[k]
        x1 == InQuarters(box[1])
        x2 == InQuarters(box[3])
        text_width == StringWidth(o.text, font_size)
        box_width == FloatSub(x2, x1)
    IN /\ (FloatLT(box[1], box[3]) /\ FloatLT(text_width, box_width)) =>
            /\ FloatLT(x1, o.x)
            /\ FloatLT(FloatAdd(o.x, text_width), x2)
            /\ FloatSub(o.x, x1) = FloatSub(x2, FloatAdd(o.x, text_width))
       /\ (FloatLT(box[1], box[3]) /\ FloatLT(box_width, text_width)) =>
            /\ o.text \in Texts
            /\ FloatLT(o.x, x1)
            /\ FloatSub(x1, o.x) = FloatSub(FloatAdd(o.x, text_width), x2)

\* C13: with the box and the font size of a batch fixed, every overlay has
\* the same y, whatever its text and the size of its page: for a box of finite
\* y1 and y2 the quarter of the font size below the middle of the box,
\* y1 + (box_height - font_size) / 2 + font_size / 4; x depends on the text
\* only.
C13_VerticalIndependent ==
  \A i, j \in 1..Len(overlays) :
    /\ overlays[i].y = overlays[j].y
    /\ (box[2].kind = "num" /\ box[4].kind = "num") =>
         overlays[i].y = Num(2 * (box[2].v + box[4].v) - font_size)
    /\ overlays[i].text = overlays[j].text => overlays[i].x = overlays[j].x

\* two texts of different widths were drawn on pages of different sizes, in
\* a finite box: at the same y and at different x
C13_Witness ==
  \E i, j \in 1..Len(overlays) :
    /\ \A k \in 1..4 : box[k].kind = "num"
    /\ overlays[i].text # overlays[j].text
    /\ overlays[i].height # overlays[j].height
    /\ overlays[i].y = overlays[j].y
    /\ overlays[i].x # overlays[j].x

\* the sheet rows among 2 .. idx - 1, the rows read so far, whose name and
\* phone are both present
QualifyingRowsRead ==
  {r \in 2..(idx - 1) : ~Absent(NameCell(r - 1)) /\ ~Absent(PhoneCell(r - 1))}

\* C14: the add_text_to_pdf calls made so far are, in row order and one per
\* row, exactly the rows read so far that have both name and phone present;
\* the header row is never among them, no row is called twice, and every call
\* has returned or raised before the next row is read.
C14_OneCallPerQualifyingRow ==
  pc \in {"loop", "done", "critical"} /\ idx >= 2 =>
    /\ Len(calls) = Cardinality(QualifyingRowsRead)
    /\ \A k \in 1..Len(calls) : calls[k].row \in QualifyingRowsRead
    /\ \A k \in 1..Len(calls) : calls[k].row >= 2
    /\ \A k, m \in 1..Len(calls) : k < m => calls[k].row < calls[m].row
    /\ \A k \in 1..Len(calls) : calls[k].raised \in BOOLEAN /\ calls[k].row < idx
    /\ Len(outcomes) = idx - 2

\* C15: both counters are 0 when the loop starts and never decrease; a data
\* row adds one to exactly one of them, so after k rows they sum to k; a batch
\* that completes prints one Run Summary, after the last row and not before,
\* with processed the number of rows whose add_text_to_pdf call returned and
\* skipped the number of all other data rows.
C15_CounterAccounting ==
  /\ [][/\ processed_count' >= processed_count
        /\ skipped_count' >= skipped_count
        /\ Len(outcomes') = Len(outcomes) + 1 =>
             \/ /\ processed_count' = processed_count + 1
                /\ skipped_count' = skipped_count
             \/ /\ processed_count' = processed_count
                /\ skipped_count' = skipped_count + 1
        /\ Len(outcomes') = Len(outcomes) =>
             /\ processed_count' = processed_count
             /\ skipped_count' = skipped_count]_vars
  /\ [](pc = "loop" /\ idx = 2 => processed_count = 0 /\ skipped_count = 0)
  /\ [](/\ processed_count + skipped_count = Len(outcomes)
        /\ processed_count = Cardinality({k \in 1..Len(calls) : ~calls[k].raised})
        /\ processed_count = Cardinality({i \in 1..Len(outcomes) : outcomes[i] = "ok"}))
  /\ [](pc # "done" => summaries = <<>>)
  /\ [](pc = "done" =>
          /\ Len(outcomes) = Len(sheet) - 1
          /\ summaries = <<<<processed_count, skipped_count>>>>
          /\ skipped_count = (Len(sheet) - 1) - processed_count)

\* a completed batch of the longest sheet: the first row was rendered, the
\* second was skipped for a missing value or raised, and the one Run Summary
\* reports one row processed and the others skipped
C15_Witness ==
  /\ pc = "done"
  /\ Len(outcomes) = MaxRows
  /\ outcomes[1] = "ok"
  /\ outcomes[2] \in {"missing", "raised"}
  /\ summaries = <<<<1, MaxRows - 1>>>>

\* C16: when a call of add_text_to_pdf has returned, the destination holds a
\* complete document of exactly the template's pages in the template's order,
\* each merged with one overlay only, which carries the text of the call and
\* has the width and height of that page; the folder changes only once every
\* page has been merged and added, and no file but the destination is
\* created, changed or removed.
C16_OutputMirrorsTemplate ==
  /\ [](apc = "returned" =>
          /\ output_path \in DOMAIN disk
          /\ disk[output_path].complete
          /\ Len(disk[output_path].pages) = Len(template)
          /\ \A i \in 1..Len(template) :
               LET page == disk[output_path].pages[i]
               IN /\ page.no = i
                  /\ page.width = template[i].width
                  /\ page.height = template[i].height
                  /\ Len(page.merged) = 1
                  /\ page.merged[1].text = a_text
                  /\ page.merged[1].width = template[i].width
                  /\ page.merged[1].height = template[i].height)
  /\ [][disk' # disk =>
          /\ apc \in {"pages", "opened"}
          /\ page_no = Len(template) + 1
          /\ Len(writer) = Len(template)
          /\ DOMAIN disk' = DOMAIN disk \cup {output_path}
          /\ \A p \in DOMAIN disk : p # output_path => disk'[p] = disk[p]]_vars

\* a call on a template of two pages of different sizes has returned, and
\* the other document of the folder is the one the earlier run left
C16_Witness ==
  /\ apc = "returned"
  /\ Len(template) = 2
  /\ template[1] # template[2]
  /\ \E p \in DOMAIN disk : p # output_path /\ disk[p] = OldDoc

====
